---- MODULE Spec2Model ----
(***************************************************************************)
(* AlgoliaSearch/registration.py: the AlgoliaEngine registry.              *)
(*                                                                         *)
(* The engine keeps a dict from model class to index adapter and connects  *)
(* two receivers to Django's post_save and pre_delete signals, scoped to   *)
(* each registered model.  Calls into collaborators (the adapter factory   *)
(* index_cls, Signal.connect / Signal.disconnect, the adapter's            *)
(* update_obj_index / delete_obj_index) may raise; an exception leaves the *)
(* method at the statement that raised, with every earlier statement's     *)
(* effect in place.                                                        *)
(***************************************************************************)
EXTENDS Integers, Sequences, FiniteSets, TLC

\* ------------------------------------------------------------ bounds
\* Number of adapters the factories may construct in one behaviour.
MaxAdapters == 3
\* Longest run of consecutive invocations of one receiver with one instance
\* that is counted.
MaxRepeat == 2
\* Number of adapters constructed in one behaviour of the interleaved calls.
MaxInterleavedAdapters == 2

\* ------------------------------------------------------------ universe
Models == {"Article", "Author"}
Instances == {"article1", "article2", "author1"}
ClassOf == [x \in Instances |->
              IF x \in {"article1", "article2"} THEN "Article" ELSE "Author"]
Factories == {"AlgoliaIndex", "CustomIndex"}
Client == "client"

None == "None"
NoError == "none"
RegistrationError == "RegistrationError"
FactoryError == "FactoryError"
SignalError == "SignalError"
AdapterErrors == {"AlgoliaException", "Timeout"}

NoAdapter == [id |-> 0, model |-> None, client |-> None]

VARIABLES
    registered_models,  \* self.__registered_models: insertion-ordered dict,
                        \* a sequence of [key, value] entries with unique keys
    post_save,          \* senders for which __post_save_receiver is connected
    pre_delete,         \* senders for which __pre_delete_receiver is connected
    nextId,             \* number of adapter objects constructed so far
    lastOk,             \* history: per model, the kind of the most recent
                        \* register/unregister call that returned normally
    built,              \* history: per model, id of the adapter most recently
                        \* returned by a factory call inside register(model)
    last,               \* the most recent call: operation, argument, exception
                        \* raised, value returned, collaborator calls made
    streak,             \* history: length of the current run of consecutive
                        \* invocations of one receiver with one instance, and
                        \* the adapter calls made in that run
    threads             \* per thread, the call it is executing statement by
                        \* statement (used by SpecInterleaved only)

vars == <<registered_models, post_save, pre_delete, nextId, lastOk, built, last,
          streak, threads>>

registry == <<registered_models, post_save, pre_delete>>

\* ------------------------------------------------------------ dict
Keys(d) == [i \in 1..Len(d) |-> d[i].key]

HasKey(d, k) == \E i \in 1..Len(d) : d[i].key = k

GetItem(d, k) == d[CHOOSE i \in 1..Len(d) : d[i].key = k].value

SetItem(d, k, v) ==
    IF HasKey(d, k)
    THEN [i \in 1..Len(d) |-> IF d[i].key = k THEN [key |-> k, value |-> v] ELSE d[i]]
    ELSE Append(d, [key |-> k, value |-> v])

DelItem(d, k) == SelectSeq(d, LAMBDA e : e.key # k)

\* ------------------------------------------------------------ signals
\* Signal.connect(receiver, sender): one receiver entry per (receiver, sender).
Connect(receivers, sender) ==
    IF \E i \in 1..Len(receivers) : receivers[i] = sender
    THEN receivers
    ELSE Append(receivers, sender)

\* disconnect dropping the receiver for every sender, as a call without the
\* sender argument to a receiver connected once would.
Disconnect_all(receivers, sender) == <<>>

\* Signal.disconnect(receiver, sender): drops the entry if there is one.
Disconnect(receivers, sender) == SelectSeq(receivers, LAMBDA s : s # sender)

\* Receivers a signal sent by `sender` reaches.
LiveReceivers(receivers, sender) == SelectSeq(receivers, LAMBDA s : s = sender)

\* ------------------------------------------------------------ lookups
is_registered(model) == HasKey(registered_models, model)

\* get_registered_models answering from the signal connections instead of
\* the dict.
get_registered_models_connected == post_save

get_registered_models == Keys(registered_models)

\* get_adapter returning the first adapter stored, whatever its key.
get_adapter_any(model) ==
    IF is_registered(model)
    THEN [exc |-> NoError, ret |-> registered_models[1].value]
    ELSE [exc |-> RegistrationError, ret |-> NoAdapter]

get_adapter(model) ==
    IF is_registered(model)
    THEN [exc |-> NoError, ret |-> GetItem(registered_models, model)]
    ELSE [exc |-> RegistrationError, ret |-> NoAdapter]

\* get_adapter_from_instance looking up the instance itself, not its class.
get_adapter_from_instance_no_class(instance) == get_adapter(instance)

get_adapter_from_instance(instance) == get_adapter(ClassOf[instance])

\* The adapter call made by update_obj_index / delete_obj_index, with what the
\* adapter's operation raised (NoError when it returned).
AdapterCall(adapter, op, obj, out) ==
    [adapter |-> adapter.id, model |-> adapter.model, op |-> op, obj |-> obj,
     raised |-> out]

\* update_obj_index turning a failure of the adapter into RegistrationError.
update_obj_index_wrapping(obj, out) ==
    LET r == get_adapter_from_instance(obj) IN
    IF r.exc # NoError
    THEN [exc |-> r.exc, calls |-> <<>>]
    ELSE [exc |-> IF out = NoError THEN NoError ELSE RegistrationError,
          calls |-> <<AdapterCall(r.ret, "update", obj, out)>>]

\* out: NoError when the adapter's operation returns, else what it raises.
update_obj_index(obj, out) ==
    LET r == get_adapter_from_instance(obj) IN
    IF r.exc # NoError
    THEN [exc |-> r.exc, calls |-> <<>>]
    ELSE [exc |-> out, calls |-> <<AdapterCall(r.ret, "update", obj, out)>>]

delete_obj_index(obj, out) ==
    LET r == get_adapter_from_instance(obj) IN
    IF r.exc # NoError
    THEN [exc |-> r.exc, calls |-> <<>>]
    ELSE [exc |-> out, calls |-> <<AdapterCall(r.ret, "delete", obj, out)>>]

\* The two receivers with their forwarding targets exchanged.
post_save_receiver_swapped(instance, out) == delete_obj_index(instance, out)

post_save_receiver(instance, out) == update_obj_index(instance, out)

pre_delete_receiver_swapped(instance, out) == update_obj_index(instance, out)

pre_delete_receiver(instance, out) == delete_obj_index(instance, out)

\* ------------------------------------------------------------ call records
Call(op, arg, exc, ret) ==
    [op |-> op, arg |-> arg, exc |-> exc, ret |-> ret,
     calls |-> <<>>, factoryCalls |-> <<>>, handlers |-> 0]

ReceiverOps == {"post_save_receiver", "pre_delete_receiver"}

Threads == {"t1", "t2"}

Idle == [op |-> "idle", arg |-> None, pc |-> "idle", adapter |-> NoAdapter,
         exc |-> NoError, calls |-> 0]

\* What a call adds to the history: a receiver invoked again with the same
\* instance lengthens the run, any other call starts a new one.  Calls are
\* atomic here, so no thread is ever inside one.
Track ==
    /\ IF last'.op \in ReceiverOps
       THEN IF last.op = last'.op /\ last.arg = last'.arg
            THEN /\ streak.n < MaxRepeat
                 /\ streak' = [n |-> streak.n + 1,
                               calls |-> streak.calls + Len(last'.calls)]
            ELSE streak' = [n |-> 1, calls |-> Len(last'.calls)]
       ELSE streak' = [n |-> 0, calls |-> 0]
    /\ UNCHANGED threads

Init ==
    /\ registered_models = <<>>
    /\ post_save = <<>>
    /\ pre_delete = <<>>
    /\ nextId = 0
    /\ lastOk = [m \in Models |-> None]
    /\ built = [m \in Models |-> 0]
    /\ last = Call("init", None, NoError, None)
    /\ streak = [n |-> 0, calls |-> 0]
    /\ threads = [t \in Threads |-> Idle]

\* ------------------------------------------------------------ operations
IsRegistered(model) ==
    /\ last' = Call("is_registered", model, NoError, is_registered(model))
    /\ UNCHANGED <<registry, nextId, lastOk, built>>
    /\ Track

RegisterOutcomes == {"ok", "factory", "post_save", "pre_delete"}

\* The body of register after the registration check: lines 42-46.
\* out: "ok", or the statement that raises.
PerformRegistration(model, index_cls, out) ==
    LET fcall == <<[factory |-> index_cls, model |-> model, client |-> Client]>>
        index_obj == [id |-> nextId + 1, model |-> model, client |-> Client]
    IN
    IF out = "factory"
    THEN /\ last' = [Call("register", model, FactoryError, None)
                       EXCEPT !.factoryCalls = fcall]
         /\ UNCHANGED <<registry, nextId, lastOk, built>>
         /\ Track
    ELSE /\ nextId < MaxAdapters
         /\ nextId' = nextId + 1
         /\ built' = [built EXCEPT ![model] = index_obj.id]
         /\ registered_models' = SetItem(registered_models, model, index_obj)
         /\ post_save' = IF out = "post_save" THEN post_save
                         ELSE Connect(post_save, model)
         /\ pre_delete' = IF out = "ok" THEN Connect(pre_delete, model)
                          ELSE pre_delete
         /\ lastOk' = IF out = "ok" THEN [lastOk EXCEPT ![model] = "register"]
                      ELSE lastOk
         /\ last' = [Call("register", model,
                          IF out = "ok" THEN NoError ELSE SignalError, None)
                       EXCEPT !.factoryCalls = fcall]
         /\ Track

\* register with the registration check left out.
register_unchecked(model, index_cls, out) == PerformRegistration(model, index_cls, out)

register(model, index_cls, out) ==
    IF is_registered(model)
    THEN /\ last' = Call("register", model, RegistrationError, None)
         /\ UNCHANGED <<registry, nextId, lastOk, built>>
         /\ Track
    ELSE PerformRegistration(model, index_cls, out)

UnregisterOutcomes == {"ok", "post_save", "pre_delete"}

\* The body of unregister after the registration check: lines 60-63.
\* out: "ok", or the disconnect statement that raises.
PerformUnregistration(model, out) ==
    /\ registered_models' = DelItem(registered_models, model)
    /\ post_save' = IF out = "post_save" THEN post_save
                    ELSE Disconnect(post_save, model)
    /\ pre_delete' = IF out = "ok" THEN Disconnect(pre_delete, model)
                     ELSE pre_delete
    /\ lastOk' = IF out = "ok" THEN [lastOk EXCEPT ![model] = "unregister"]
                 ELSE lastOk
    /\ last' = Call("unregister", model,
                    IF out = "ok" THEN NoError ELSE SignalError, None)
    /\ UNCHANGED <<nextId, built>>
    /\ Track

\* unregister with the registration check left out (del of a missing key
\* taken as a no-op, as dict.pop(model, None) would be).
unregister_unchecked(model, out) == PerformUnregistration(model, out)

unregister(model, out) ==
    IF ~is_registered(model)
    THEN /\ last' = Call("unregister", model, RegistrationError, None)
         /\ UNCHANGED <<registry, nextId, lastOk, built>>
         /\ Track
    ELSE PerformUnregistration(model, out)

GetRegisteredModels ==
    /\ last' = Call("get_registered_models", None, NoError, get_registered_models)
    /\ UNCHANGED <<registry, nextId, lastOk, built>>
    /\ Track

\* get_adapter reading the entry with dict.pop, which removes it.
GetAdapter_pop(model) ==
    /\ LET r == get_adapter(model) IN
       last' = Call("get_adapter", model, r.exc, r.ret)
    /\ registered_models' = DelItem(registered_models, model)
    /\ UNCHANGED <<post_save, pre_delete, nextId, lastOk, built>>
    /\ Track

GetAdapter(model) ==
    /\ LET r == get_adapter(model) IN
       last' = Call("get_adapter", model, r.exc, r.ret)
    /\ UNCHANGED <<registry, nextId, lastOk, built>>
    /\ Track

GetAdapterFromInstance(instance) ==
    /\ LET r == get_adapter_from_instance(instance) IN
       last' = Call("get_adapter_from_instance", instance, r.exc, r.ret)
    /\ UNCHANGED <<registry, nextId, lastOk, built>>
    /\ Track

AdapterOutcomes == {NoError} \cup AdapterErrors

UpdateObjIndex(obj, out) ==
    /\ LET r == update_obj_index(obj, out) IN
       last' = [Call("update_obj_index", obj, r.exc, None) EXCEPT !.calls = r.calls]
    /\ UNCHANGED <<registry, nextId, lastOk, built>>
    /\ Track

DeleteObjIndex(obj, out) ==
    /\ LET r == delete_obj_index(obj, out) IN
       last' = [Call("delete_obj_index", obj, r.exc, None) EXCEPT !.calls = r.calls]
    /\ UNCHANGED <<registry, nextId, lastOk, built>>
    /\ Track

\* The receivers, invoked directly with an instance of any type.
PostSaveReceiver(instance, out) ==
    /\ LET r == post_save_receiver(instance, out) IN
       last' = [Call("post_save_receiver", instance, r.exc, None)
                  EXCEPT !.calls = r.calls, !.handlers = 1]
    /\ UNCHANGED <<registry, nextId, lastOk, built>>
    /\ Track

PreDeleteReceiver(instance, out) ==
    /\ LET r == pre_delete_receiver(instance, out) IN
       last' = [Call("pre_delete_receiver", instance, r.exc, None)
                  EXCEPT !.calls = r.calls, !.handlers = 1]
    /\ UNCHANGED <<registry, nextId, lastOk, built>>
    /\ Track

\* ------------------------------------------------------------ notification source
\* Signal.send(sender, instance): calls each live receiver in turn; the first
\* exception a receiver raises ends the send and reaches the sender.
RECURSIVE Send(_, _, _, _)
Send(n, kind, instance, out) ==
    IF n = 0
    THEN [exc |-> NoError, calls |-> <<>>, handlers |-> 0]
    ELSE LET r == IF kind = "save" THEN post_save_receiver(instance, out)
                  ELSE pre_delete_receiver(instance, out)
         IN IF r.exc # NoError
            THEN [exc |-> r.exc, calls |-> r.calls, handlers |-> 1]
            ELSE LET rest == Send(n - 1, kind, instance, out) IN
                 [exc |-> rest.exc, calls |-> r.calls \o rest.calls,
                  handlers |-> 1 + rest.handlers]

\* instance.save(): the persistence layer sends post_save with sender = type.
Save(instance, out) ==
    /\ LET n == Len(LiveReceivers(post_save, ClassOf[instance]))
           r == Send(n, "save", instance, out)
       IN last' = [Call("save", instance, r.exc, None)
                     EXCEPT !.calls = r.calls, !.handlers = r.handlers]
    /\ UNCHANGED <<registry, nextId, lastOk, built>>
    /\ Track

\* instance.delete(): the persistence layer sends pre_delete with sender = type.
Delete(instance, out) ==
    /\ LET n == Len(LiveReceivers(pre_delete, ClassOf[instance]))
           r == Send(n, "delete", instance, out)
       IN last' = [Call("delete", instance, r.exc, None)
                     EXCEPT !.calls = r.calls, !.handlers = r.handlers]
    /\ UNCHANGED <<registry, nextId, lastOk, built>>
    /\ Track

\* ------------------------------------------------------------ specification
Next ==
    \/ \E m \in Models : IsRegistered(m)
    \/ \E m \in Models, f \in Factories, o \in RegisterOutcomes : register(m, f, o)
    \/ \E m \in Models, o \in UnregisterOutcomes : unregister(m, o)
    \/ GetRegisteredModels
    \/ \E m \in Models : GetAdapter(m)
    \/ \E x \in Instances : GetAdapterFromInstance(x)
    \/ \E x \in Instances, o \in AdapterOutcomes : UpdateObjIndex(x, o)
    \/ \E x \in Instances, o \in AdapterOutcomes : DeleteObjIndex(x, o)
    \/ \E x \in Instances, o \in AdapterOutcomes : PostSaveReceiver(x, o)
    \/ \E x \in Instances, o \in AdapterOutcomes : PreDeleteReceiver(x, o)
    \/ \E x \in Instances, o \in AdapterOutcomes : Save(x, o)
    \/ \E x \in Instances, o \in AdapterOutcomes : Delete(x, o)

Spec == Init /\ [][Next]_vars

\* ------------------------------------------------------------ interleaved calls
\* The same methods executed one statement at a time by the threads of
\* Threads, against the one shared engine.  A thread switch can fall between
\* any two statements; a dict operation and a signal call are each atomic.
\* threads[t].pc names the statement thread t executes next.  The factory, the
\* signals and the adapters return normally here, so whatever goes wrong in
\* these behaviours comes from the interleaving alone.
KeyError == "KeyError"

\* Instances saved and deleted by the threads: one of each model.
SignalledInstances == {"article1", "author1"}

history == <<last, lastOk, streak>>

Free(t) == threads[t].pc \in {"idle", "done"}

Enter(op, arg, pc) == [Idle EXCEPT !.op = op, !.arg = arg, !.pc = pc]

Raise(th, exc) == [th EXCEPT !.pc = "done", !.exc = exc, !.adapter = NoAdapter]

Return(th) == [th EXCEPT !.pc = "done", !.exc = NoError]

\* register, lines 37-40: the registration check.  A call that will construct
\* an adapter is started only while the bound leaves room for one.
RegisterCheck(t, model) ==
    /\ Free(t)
    /\ \/ is_registered(model)
       \/ nextId + Cardinality({u \in Threads : threads[u].pc = "construct"})
             < MaxInterleavedAdapters
    /\ threads' = [threads EXCEPT ![t] =
                     IF is_registered(model)
                     THEN Raise(Enter("register", model, "check"), RegistrationError)
                     ELSE Enter("register", model, "construct")]
    /\ UNCHANGED <<registry, nextId, built, history>>

\* register, line 42: index_obj = index_cls(model, self.client).
RegisterConstruct(t) ==
    /\ threads[t].op = "register"
    /\ threads[t].pc = "construct"
    /\ nextId' = nextId + 1
    /\ built' = [built EXCEPT ![threads[t].arg] = nextId + 1]
    /\ threads' = [threads EXCEPT ![t].pc = "store",
                     ![t].adapter = [id |-> nextId + 1, model |-> threads[t].arg,
                                     client |-> Client]]
    /\ UNCHANGED <<registry, history>>

\* register, line 43: self.__registered_models[model] = index_obj.
RegisterStore(t) ==
    /\ threads[t].op = "register"
    /\ threads[t].pc = "store"
    /\ registered_models' = SetItem(registered_models, threads[t].arg, threads[t].adapter)
    /\ threads' = [threads EXCEPT ![t].pc = "connect_post_save", ![t].adapter = NoAdapter]
    /\ UNCHANGED <<post_save, pre_delete, nextId, built, history>>

\* register, line 45: post_save.connect(self.__post_save_receiver, model).
RegisterConnectPostSave(t) ==
    /\ threads[t].op = "register"
    /\ threads[t].pc = "connect_post_save"
    /\ post_save' = Connect(post_save, threads[t].arg)
    /\ threads' = [threads EXCEPT ![t].pc = "connect_pre_delete"]
    /\ UNCHANGED <<registered_models, pre_delete, nextId, built, history>>

\* register, line 46: pre_delete.connect(self.__pre_delete_receiver, model).
RegisterConnectPreDelete(t) ==
    /\ threads[t].op = "register"
    /\ threads[t].pc = "connect_pre_delete"
    /\ pre_delete' = Connect(pre_delete, threads[t].arg)
    /\ threads' = [threads EXCEPT ![t] = Return(@)]
    /\ UNCHANGED <<registered_models, post_save, nextId, built, history>>

\* unregister, lines 55-58: the registration check.
UnregisterCheck(t, model) ==
    /\ Free(t)
    /\ threads' = [threads EXCEPT ![t] =
                     IF ~is_registered(model)
                     THEN Raise(Enter("unregister", model, "check"), RegistrationError)
                     ELSE Enter("unregister", model, "del")]
    /\ UNCHANGED <<registry, nextId, built, history>>

\* unregister, line 60: del self.__registered_models[model]; KeyError when
\* the key has gone since the check.
UnregisterDel(t) ==
    /\ threads[t].op = "unregister"
    /\ threads[t].pc = "del"
    /\ IF HasKey(registered_models, threads[t].arg)
       THEN /\ registered_models' = DelItem(registered_models, threads[t].arg)
            /\ threads' = [threads EXCEPT ![t].pc = "disconnect_post_save"]
       ELSE /\ threads' = [threads EXCEPT ![t] = Raise(@, KeyError)]
            /\ UNCHANGED registered_models
    /\ UNCHANGED <<post_save, pre_delete, nextId, built, history>>

\* unregister, line 62: post_save.disconnect(self.__post_save_receiver, model).
UnregisterDisconnectPostSave(t) ==
    /\ threads[t].op = "unregister"
    /\ threads[t].pc = "disconnect_post_save"
    /\ post_save' = Disconnect(post_save, threads[t].arg)
    /\ threads' = [threads EXCEPT ![t].pc = "disconnect_pre_delete"]
    /\ UNCHANGED <<registered_models, pre_delete, nextId, built, history>>

\* unregister, line 63: pre_delete.disconnect(self.__pre_delete_receiver, model).
UnregisterDisconnectPreDelete(t) ==
    /\ threads[t].op = "unregister"
    /\ threads[t].pc = "disconnect_pre_delete"
    /\ pre_delete' = Disconnect(pre_delete, threads[t].arg)
    /\ threads' = [threads EXCEPT ![t] = Return(@)]
    /\ UNCHANGED <<registered_models, post_save, nextId, built, history>>

\* The model a thread's lookup is about: the argument of get_adapter, the
\* class of the instance saved or deleted.
LookupModel(th) == IF th.op = "get_adapter" THEN th.arg ELSE ClassOf[th.arg]

\* get_adapter, line 71 (and 73-75): a direct call by thread t.
GetAdapterCheck(t, model) ==
    /\ Free(t)
    /\ threads' = [threads EXCEPT ![t] =
                     IF is_registered(model)
                     THEN Enter("get_adapter", model, "read")
                     ELSE Raise(Enter("get_adapter", model, "check"), RegistrationError)]
    /\ UNCHANGED <<registry, nextId, built, history>>

\* Signal.send for a save ("save", post_save) or a delete ("delete",
\* pre_delete) of instance x: the receiver is called when it is connected for
\* the instance's class at the time of the send.
SendSignal(t, kind, x) ==
    /\ Free(t)
    /\ LET receivers == IF kind = "save" THEN post_save ELSE pre_delete IN
       threads' = [threads EXCEPT ![t] =
                     IF LiveReceivers(receivers, ClassOf[x]) = <<>>
                     THEN Return(Enter(kind, x, "send"))
                     ELSE Enter(kind, x, "check")]
    /\ UNCHANGED <<registry, nextId, built, history>>

\* The receiver called by the send, lines 93/97 -> 82/86 -> 79 -> 71: the
\* membership test of get_adapter.
ReceiverCheck(t) ==
    /\ threads[t].op \in {"save", "delete"}
    /\ threads[t].pc = "check"
    /\ threads' = [threads EXCEPT ![t] =
                     IF is_registered(LookupModel(@))
                     THEN [@ EXCEPT !.pc = "read"]
                     ELSE Raise(@, RegistrationError)]
    /\ UNCHANGED <<registry, nextId, built, history>>

\* get_adapter, line 72: return self.__registered_models[model]; KeyError
\* when the key has gone since the test of line 71.
GetAdapterRead(t) ==
    /\ threads[t].pc = "read"
    /\ LET th == threads[t]
           m == LookupModel(th)
       IN threads' = [threads EXCEPT ![t] =
            IF ~HasKey(registered_models, m)
            THEN Raise(th, KeyError)
            ELSE IF th.op = "get_adapter"
                 THEN [Return(th) EXCEPT !.adapter = GetItem(registered_models, m)]
                 ELSE [th EXCEPT !.pc = "forward",
                                 !.adapter = GetItem(registered_models, m)]]
    /\ UNCHANGED <<registry, nextId, built, history>>

\* update_obj_index line 83 / delete_obj_index line 87: the adapter call.
Forward(t) ==
    /\ threads[t].pc = "forward"
    /\ threads' = [threads EXCEPT ![t] = [Return(@) EXCEPT !.calls = 1]]
    /\ UNCHANGED <<registry, nextId, built, history>>

NextInterleaved ==
    \/ \E t \in Threads, m \in Models : RegisterCheck(t, m)
    \/ \E t \in Threads : RegisterConstruct(t)
    \/ \E t \in Threads : RegisterStore(t)
    \/ \E t \in Threads : RegisterConnectPostSave(t)
    \/ \E t \in Threads : RegisterConnectPreDelete(t)
    \/ \E t \in Threads, m \in Models : UnregisterCheck(t, m)
    \/ \E t \in Threads : UnregisterDel(t)
    \/ \E t \in Threads : UnregisterDisconnectPostSave(t)
    \/ \E t \in Threads : UnregisterDisconnectPreDelete(t)
    \/ \E t \in Threads, m \in Models : GetAdapterCheck(t, m)
    \/ \E t \in Threads, k \in {"save", "delete"}, x \in SignalledInstances :
          SendSignal(t, k, x)
    \/ \E t \in Threads : ReceiverCheck(t)
    \/ \E t \in Threads : GetAdapterRead(t)
    \/ \E t \in Threads : Forward(t)

SpecInterleaved == Init /\ [][NextInterleaved]_vars

\* ------------------------------------------------------------ helpers for the properties
Subscribed(receivers, model) == \E i \in 1..Len(receivers) : receivers[i] = model

Entries(model) == Len(SelectSeq(registered_models, LAMBDA e : e.key = model))

\* ------------------------------------------------------------ C1
\* C1: a register(M, factory) call made while M is registered raises
\* RegistrationError, makes no factory call and constructs no adapter, and
\* leaves the mapping and both signals' receivers as they were: M keeps its one
\* entry, holding the adapter the registration in effect constructed.
C1_DoubleRegisterRefused ==
    [][\A m \in Models :
         (is_registered(m) /\ last'.op = "register" /\ last'.arg = m)
         => /\ last'.exc = RegistrationError
            /\ last'.factoryCalls = <<>>
            /\ nextId' = nextId
            /\ registry' = registry
            /\ Entries(m)' = 1
            /\ GetItem(registered_models, m)' = GetItem(registered_models, m)
            /\ GetItem(registered_models, m)'.id = built[m]]_vars

C1_Witness ==
    /\ last.op = "register"
    /\ last.exc = RegistrationError
    /\ is_registered(last.arg)
    /\ lastOk[last.arg] = "register"
    /\ Subscribed(post_save, last.arg)
    /\ Subscribed(pre_delete, last.arg)

\* ------------------------------------------------------------ C2
\* C2: an unregister(M) call made while M is not registered raises
\* RegistrationError and leaves the mapping and both signals' receivers as
\* they were; on an empty registry the registry stays empty.
C2_UnregisterUnknownRefused ==
    [][\A m \in Models :
         (~is_registered(m) /\ last'.op = "unregister" /\ last'.arg = m)
         => /\ last'.exc = RegistrationError
            /\ registry' = registry
            /\ (registered_models = <<>> => registered_models' = <<>>)]_vars

C2_Witness ==
    /\ last.op = "unregister"
    /\ last.exc = RegistrationError
    /\ registered_models = <<>>
    /\ post_save = <<>>
    /\ pre_delete = <<>>

\* ------------------------------------------------------------ C3
\* C3: in every state, is_registered(M) is true exactly when the most recent
\* register/unregister call on M that returned normally was a register (so it
\* is false while no register(M) has returned normally), and an is_registered
\* call returns that value.
C3_IsRegisteredTracksLastSuccess ==
    /\ \A m \in Models : is_registered(m) <=> lastOk[m] = "register"
    /\ last.op = "is_registered" => (last.ret <=> lastOk[last.arg] = "register")

\* ------------------------------------------------------------ C4
\* C4: the list get_registered_models() returns holds exactly the models for
\* which is_registered is true, each of them once.
IsExactlyRegistered(list) ==
    /\ {list[i] : i \in 1..Len(list)} = {m \in Models : is_registered(m)}
    /\ \A i, j \in 1..Len(list) : list[i] = list[j] => i = j

C4_RegisteredModelsExact ==
    /\ IsExactlyRegistered(get_registered_models)
    /\ last.op = "get_registered_models" => IsExactlyRegistered(last.ret)

C4_Witness ==
    /\ last.op = "get_registered_models"
    /\ last.ret = <<"Author">>
    /\ lastOk["Article"] = "unregister"
    /\ lastOk["Author"] = "register"

\* ------------------------------------------------------------ C5
\* C5: get_adapter(M) and get_adapter_from_instance(x), x of type M, return
\* the same adapter when M is registered: the one stored for M, constructed
\* for M by the register(M) call in effect; when M is not registered both raise
\* RegistrationError.
LookupRight(m) ==
    IF is_registered(m)
    THEN /\ last.exc = NoError
         /\ last.ret = GetItem(registered_models, m)
         /\ last.ret = get_adapter(m).ret
         /\ last.ret.model = m
         /\ last.ret.id = built[m]
         /\ last.ret.client = Client
    ELSE last.exc = RegistrationError

C5_AdapterLookup ==
    /\ last.op = "get_adapter" => LookupRight(last.arg)
    /\ last.op = "get_adapter_from_instance" => LookupRight(ClassOf[last.arg])

C5_Witness ==
    /\ last.op = "get_adapter_from_instance"
    /\ last.arg = "article2"
    /\ last.exc = NoError
    /\ last.ret.id = 2
    /\ is_registered("Author")

\* ------------------------------------------------------------ C6
\* C6: a call of the post_save receiver with an instance x of a registered
\* model M makes one adapter call, update on M's adapter with x, and no other;
\* with an instance of an unregistered model it raises RegistrationError and
\* makes no adapter call.
ForwardedOnce(op) ==
    LET m == ClassOf[last.arg] IN
    IF is_registered(m)
    THEN /\ Len(last.calls) = 1
         /\ last.calls[1].op = op
         /\ last.calls[1].obj = last.arg
         /\ last.calls[1].model = m
         /\ last.calls[1].adapter = GetItem(registered_models, m).id
    ELSE /\ last.exc = RegistrationError
         /\ last.calls = <<>>

C6_PostSaveForwardsOnce == last.op = "post_save_receiver" => ForwardedOnce("update")

C6_Witness ==
    /\ last.op = "post_save_receiver"
    /\ last.arg = "article1"
    /\ Len(last.calls) = 1
    /\ is_registered("Author")

\* ------------------------------------------------------------ C7
\* C7: a call of the pre_delete receiver with an instance x of a registered
\* model M makes one adapter call, delete on M's adapter with x, and no other;
\* with an instance of an unregistered model it raises RegistrationError and
\* makes no adapter call.
C7_PreDeleteForwardsOnce == last.op = "pre_delete_receiver" => ForwardedOnce("delete")

C7_Witness ==
    /\ last.op = "pre_delete_receiver"
    /\ last.arg = "author1"
    /\ Len(last.calls) = 1
    /\ is_registered("Article")

\* ------------------------------------------------------------ C8
\* C8: with signals delivered only to connected receivers: while a register(M)
\* that returned normally is the latest such call on M and M is registered, a
\* save of an M instance runs the receiver once and makes one update call on
\* M's adapter, and a delete one delete call; while an unregister(M) that
\* returned normally is the latest such call and M is not registered, a save
\* or delete of an M instance runs no receiver and makes no adapter call.
C8_EndToEnd ==
    last.op \in {"save", "delete"} =>
        LET m == ClassOf[last.arg] IN
        /\ (lastOk[m] = "register" /\ is_registered(m)) =>
              /\ last.handlers = 1
              /\ ForwardedOnce(IF last.op = "save" THEN "update" ELSE "delete")
        /\ (lastOk[m] = "unregister" /\ ~is_registered(m)) =>
              /\ last.handlers = 0
              /\ last.calls = <<>>

\* ------------------------------------------------------------ C9
\* C9: when the adapter's update or delete operation raises inside
\* update_obj_index, delete_obj_index or one of the receivers, the call raises
\* that same exception (not RegistrationError), the adapter operation was
\* attempted once, and the mapping and signal connections are unchanged.
ForwardingOps == {"update_obj_index", "delete_obj_index",
                  "post_save_receiver", "pre_delete_receiver"}

C9_AdapterFailurePropagates ==
    [][(/\ last'.op \in ForwardingOps
        /\ \E i \in 1..Len(last'.calls) : last'.calls[i].raised # NoError)
       => /\ Len(last'.calls) = 1
          /\ last'.exc = last'.calls[1].raised
          /\ last'.exc \in AdapterErrors
          /\ last'.exc # RegistrationError
          /\ registry' = registry]_vars

C9_Witness ==
    /\ last.op = "post_save_receiver"
    /\ Len(last.calls) = 1
    /\ last.calls[1].raised = "Timeout"
    /\ last.exc = "Timeout"

\* ------------------------------------------------------------ C10
\* C10: register and unregister are all-or-nothing.  A register(M) that raises
\* at the check leaves the registry as it was, and one that raises later leaves
\* M unregistered and neither receiver connected for M; an unregister(M) that
\* raises at the check leaves the registry as it was, and one that raises later
\* leaves M registered with its adapter and both receivers connected.  After
\* a raising call M has an entry exactly when it has its connections.
C10_AllOrNothing ==
    [][\A m \in Models :
         (last'.op \in {"register", "unregister"} /\ last'.arg = m
            /\ last'.exc # NoError)
         => /\ (last'.exc = RegistrationError => registry' = registry)
            /\ (last'.op = "register" /\ ~is_registered(m)) =>
                  /\ ~is_registered(m)'
                  /\ ~Subscribed(post_save, m)'
                  /\ ~Subscribed(pre_delete, m)'
            /\ (last'.op = "unregister" /\ is_registered(m)) =>
                  /\ is_registered(m)'
                  /\ GetItem(registered_models, m)' = GetItem(registered_models, m)
                  /\ Subscribed(post_save, m)'
                  /\ Subscribed(pre_delete, m)'
            /\ is_registered(m)' <=> Subscribed(post_save, m)'
            /\ is_registered(m)' <=> Subscribed(pre_delete, m)']_vars

\* ------------------------------------------------------------ C11
\* C11: after any sequence of completed register/unregister calls, for every
\* model the post_save receiver is connected exactly when the pre_delete
\* receiver is connected, exactly when the model has an adapter in the mapping,
\* and each receiver is connected at most once per model.
C11_SubscriptionsMatchEntries ==
    \A m \in Models :
        /\ Subscribed(post_save, m) <=> Subscribed(pre_delete, m)
        /\ Subscribed(post_save, m) <=> is_registered(m)
        /\ Len(LiveReceivers(post_save, m)) <= 1
        /\ Len(LiveReceivers(pre_delete, m)) <= 1

\* ------------------------------------------------------------ C12
\* C12: in every state, the states between the statements of register and
\* unregister included, a model with a post_save or pre_delete connection has
\* an adapter in the mapping; and a receiver called by a signal sent for a
\* connected model never raises RegistrationError.
C12_ConnectedHasAdapter ==
    /\ \A m \in Models :
          (Subscribed(post_save, m) \/ Subscribed(pre_delete, m)) => is_registered(m)
    /\ \A t \in Threads :
          threads[t].op \in {"save", "delete"} => threads[t].exc # RegistrationError

\* ------------------------------------------------------------ C13
\* C13: a lookup (get_adapter directly, or inside the receiver of a save or
\* delete) interleaved with register/unregister either gets an adapter of the
\* model looked up or raises RegistrationError; it never raises another error
\* out of the lookup (KeyError between lines 71 and 72) and never gets another
\* model's adapter.
C13_LookupOutcomes ==
    \A t \in Threads :
        threads[t].op \in {"get_adapter", "save", "delete"} =>
            /\ threads[t].exc # KeyError
            /\ threads[t].adapter # NoAdapter =>
                  threads[t].adapter.model = LookupModel(threads[t])
            /\ (threads[t].op = "get_adapter" /\ threads[t].pc = "done") =>
                  \/ threads[t].exc = RegistrationError
                  \/ threads[t].exc = NoError /\ threads[t].adapter # NoAdapter

\* ------------------------------------------------------------ C14
\* C14: of two register(M) calls interleaved on an unregistered M only one
\* gets past the registration check (the other raises RegistrationError), so
\* one adapter is constructed for M and the adapter stored for M is never
\* replaced by another.
InsideRegister(t, m) ==
    /\ threads[t].op = "register"
    /\ threads[t].arg = m
    /\ threads[t].pc \in {"construct", "store", "connect_post_save",
                          "connect_pre_delete"}

C14_OneRegistrationWins ==
    [][\A m \in Models :
         /\ ~(InsideRegister("t1", m)' /\ InsideRegister("t2", m)')
         /\ (is_registered(m) /\ is_registered(m)') =>
               GetItem(registered_models, m)' = GetItem(registered_models, m)]_vars

\* ------------------------------------------------------------ C15
\* C15: the lookups, update_obj_index / delete_obj_index, both receivers and
\* the signal deliveries leave the mapping, the stored adapters and the signal
\* connections unchanged, whether they return or raise; a run of n consecutive
\* invocations of one receiver with one instance of a registered model has made
\* exactly n adapter calls (none when the model is not registered).
ReadOps == {"is_registered", "get_registered_models", "get_adapter",
            "get_adapter_from_instance", "update_obj_index", "delete_obj_index",
            "post_save_receiver", "pre_delete_receiver", "save", "delete"}

C15_LookupsLeaveRegistryAlone ==
    [][last'.op \in ReadOps
       => /\ registry' = registry
          /\ \A m \in Models : get_adapter(m)' = get_adapter(m)
          /\ streak'.n >= 1 =>
                streak'.calls = IF is_registered(ClassOf[last'.arg])
                                THEN streak'.n ELSE 0]_vars

C15_Witness ==
    /\ last.op = "post_save_receiver"
    /\ last.arg = "article1"
    /\ streak.n >= 2
    /\ streak.calls = streak.n
    /\ is_registered("Article")

\* ------------------------------------------------------------ C16
\* C16: a register(M) or unregister(M) call, returning or raising, leaves
\* every other model as it was: whether it is registered, the adapter
\* get_adapter returns for it, and its post_save and pre_delete connections.
C16_OtherModelsUntouched ==
    [][\A m \in Models, o \in Models :
         (last'.op \in {"register", "unregister"} /\ last'.arg = m /\ o # m)
         => /\ is_registered(o)' = is_registered(o)
            /\ get_adapter(o)' = get_adapter(o)
            /\ LiveReceivers(post_save, o)' = LiveReceivers(post_save, o)
            /\ LiveReceivers(pre_delete, o)' = LiveReceivers(pre_delete, o)]_vars

C16_Witness ==
    /\ last.op = "unregister"
    /\ last.arg = "Article"
    /\ last.exc = NoError
    /\ is_registered("Author")
    /\ Subscribed(post_save, "Author")
    /\ Subscribed(pre_delete, "Author")

\* ------------------------------------------------------------ C17
\* C17: a register(M, factory) call made when the latest register/unregister
\* call on M that returned was an unregister, and M is not registered, is not
\* refused: it calls the factory once with M and the engine's client, and when
\* it returns, get_adapter(M) gives the adapter just constructed, not the one
\* of the earlier registration, and a save or delete of an M instance then runs
\* the receiver once and makes its one adapter call on that new adapter.
DeliveredOnceTo(adapter, kind, x, out) ==
    LET receivers == IF kind = "save" THEN post_save ELSE pre_delete
        r == Send(Len(LiveReceivers(receivers, ClassOf[x])), kind, x, out)
    IN /\ r.handlers = 1
       /\ r.calls = <<AdapterCall(adapter, IF kind = "save" THEN "update" ELSE "delete",
                                  x, out)>>

====
